---- MODULE Spec2Model ----
(***************************************************************************)
(* Authentication and session-security core of the adoption system         *)
(* backend: the Users table, the DAO statements that read and write its    *)
(* security columns, the services that orchestrate them and the handlers   *)
(* that validate requests.                                                 *)
(*                                                                         *)
(* Text values that the code generates or compares character by character  *)
(* (session identifiers, 2FA codes, passwords) are sequences of one-       *)
(* character strings; the empty Go string is the empty sequence.  Emails,   *)
(* providers, provider ids and error messages are TLA+ strings.            *)
(***************************************************************************)
EXTENDS Integers, Sequences, FiniteSets, TLC

VARIABLES
    scope,      \* the input universe of this run (one of Scopes), never changed
    users,      \* the Users table: row id -> row (present = FALSE: no such row)
    randOK,     \* whether crypto/rand.Read succeeds in this run
    last,       \* the last request served and its response
    streak,     \* per row: the run of consecutive failed logins since counter 0,
                \* and whether a first-factor login stored its session identifier
    pc,         \* per request goroutine: position inside AuthenticateUser
    loc,        \* per request goroutine: its local variables
    tally       \* bookkeeping of the interleaved runs (counter at start, increments done)

vars == <<scope, users, randOK, last, streak, pc, loc, tally>>

----------------------------------------------------------------------------
(* Bounds and input domains *)

MaxFailed == 7

SmallCap == 1

UserIDs == {1, 2}

Emails == {"a@x.com", "g@x.com"}

Providers == {"local", "google"}

Subjects == {"sub123"}

Pw1 == <<"p", "w", "1">>

PwBad == <<"b", "a", "d">>

Procs == {1, 2}

WrongCode == <<"W", "R", "O", "N", "G", "1">>

----------------------------------------------------------------------------
(* Program constants *)

FailedLoginsThreshold == 5

TwoFactorLength == 6

SessionIDLength == 50

TempPasswordLength == 12

Min(S) == CHOOSE x \in S : \A y \in S : x <= y

----------------------------------------------------------------------------
(* Token generator *)

Characters ==
    << "0","1","2","3","4","5","6","7","8","9",
       "A","B","C","D","E","F","G","H","I","J","K","L","M",
       "N","O","P","Q","R","S","T","U","V","W","X","Y","Z" >>

\* The outcomes of rand.Read on a buffer of the given length: the buffer
\* filled with bytes, or (when the source is broken) an error.
RandRead(length, seeds, healthy) ==
    { [err |-> FALSE, code |-> [i \in 1..length |-> (seed * i) % 256]] : seed \in seeds }
    \cup (IF healthy THEN {} ELSE { [err |-> TRUE, code |-> [i \in 1..length |-> 0]] })

\* Variant: the error of the random source is ignored and the buffer used.
Generate2FA_fallback(rnd) ==
    [i \in 1..Len(rnd.code) |-> Characters[(rnd.code[i] % Len(Characters)) + 1]]

\* security.Generate2FA: one character of the alphabet per random byte,
\* the empty string when the random source reports an error.
Generate2FA(rnd) ==
    IF rnd.err THEN << >>
    ELSE [i \in 1..Len(rnd.code) |-> Characters[(rnd.code[i] % Len(Characters)) + 1]]

PasswordCharacters ==
    Characters \o
    << "a","b","c","d","e","f","g","h","i","j","k","l","m",
       "n","o","p","q","r","s","t","u","v","w","x","y","z",
       "!","@","#","$","%","^","&","*" >>

\* security.GeneratePassword: as Generate2FA, over the password alphabet.
GeneratePassword(rnd) ==
    IF rnd.err THEN << >>
    ELSE [i \in 1..Len(rnd.code) |->
             PasswordCharacters[(rnd.code[i] % Len(PasswordCharacters)) + 1]]

----------------------------------------------------------------------------
(* Password hashing *)

\* The Password column holds either text stored as it came (alg = "none",
\* the empty text included) or a bcrypt hash of a plaintext.
Raw(text) == [alg |-> "none", of |-> text]

EmptyPassword == Raw(<< >>)

HashPassword(password) == [alg |-> "bcrypt", of |-> password]

VerifyPassword(hashedPassword, password) ==
    hashedPassword.alg = "bcrypt" /\ hashedPassword.of = password

----------------------------------------------------------------------------
(* The Users table *)

NoRow ==
    [present |-> FALSE, email |-> "", session |-> << >>, failed |-> 0,
     blocked |-> FALSE, twofa |-> << >>, password |-> EmptyPassword,
     provider |-> "", providerId |-> "", changePw |-> FALSE]

\* WHERE email = ? (the column is unique): the id of the row, 0 when none.
ByEmail(db, email) ==
    IF \E i \in UserIDs : db[i].present /\ db[i].email = email
    THEN CHOOSE i \in UserIDs : db[i].present /\ db[i].email = email
    ELSE 0

\* WHERE Session_ID = ? ... First: the matching row with the lowest id.
BySession(db, sessionID) ==
    IF \E i \in UserIDs : db[i].present /\ db[i].session = sessionID
    THEN Min({ i \in UserIDs : db[i].present /\ db[i].session = sessionID })
    ELSE 0

\* Variant: no unique index on Session_ID.
UniqueOK_noSession(db) ==
    \A i, j \in UserIDs :
        (i # j /\ db[i].present /\ db[j].present) =>
            /\ db[i].email # db[j].email
            /\ (db[i].providerId # "" => db[i].providerId # db[j].providerId)

\* The unique indexes of the table (email, Session_ID, Provider_ID); empty
\* session and provider ids do not collide.
UniqueOK(db) ==
    \A i, j \in UserIDs :
        (i # j /\ db[i].present /\ db[j].present) =>
            /\ db[i].email # db[j].email
            /\ (db[i].session # << >> => db[i].session # db[j].session)
            /\ (db[i].providerId # "" => db[i].providerId # db[j].providerId)

----------------------------------------------------------------------------
(* Error messages *)

ErrBlocked == "usuario bloqueado"

ErrInvalidCredentials == "credenciales invalidas"

ErrPasswordRequired == "contrasena requerida para usuarios locales"

ErrNotFound == "usuario no encontrado"

ErrStore == "error al actualizar"

ErrSessionLookup == "error al obtener usuario"

ErrInvalid2FA == "codigo de autenticacion de dos factores invalido"

ErrGenerate2FA == "error al generar el token 2FA"

ErrSend2FA == "error al enviar el token 2FA"

ErrGoogleToken == "token de Google invalido"

ErrGoogleEmail == "no se pudo obtener el email del token de Google"

ErrGoogleCreate == "error al crear usuario con Google"

ErrGoogleUpdate == "error al actualizar usuario con Google"

ErrGoogleSession == "error al generar sessionID"

ErrBadRequest == "campos obligatorios"

ErrProvider == "proveedor debe ser 'local' para restablecer contraseña"

ErrResetPassword == "error al reiniciar la contraseña"

ErrChangeFlag == "error al establecer la bandera de cambio de contraseña"

ErrSendPassword == "error al enviar la nueva contraseña"

ErrUpdatePassword == "error al actualizar la contraseña del usuario"

\* A nil pointer dereference: the request is aborted by the panic.
ErrPanic == "panic: nil pointer dereference"

----------------------------------------------------------------------------
(* DAO: one operator per function of dao/user.go.  Each takes the table   *)
(* and returns the table after the statement together with the results.    *)

GetUserByEmail(db, email) ==
    LET i == ByEmail(db, email) IN
    [err |-> IF i = 0 THEN ErrNotFound ELSE "", id |-> i]

GetUserBySessionID(db, sessionID) ==
    LET i == BySession(db, sessionID) IN
    [err |-> IF i = 0 THEN ErrNotFound ELSE "", id |-> i]

\* Variant: selects the session column instead of the two-factor column.
Get2FA_sessionColumn(db, sessionID) ==
    LET i == BySession(db, sessionID) IN
    [err |-> IF i = 0 THEN ErrNotFound ELSE "",
     code |-> IF i = 0 THEN << >> ELSE db[i].session]

Get2FA(db, sessionID) ==
    LET i == BySession(db, sessionID) IN
    [err |-> IF i = 0 THEN ErrNotFound ELSE "",
     code |-> IF i = 0 THEN << >> ELSE db[i].twofa]

\* Scan leaves the empty string when no row matches.
GetUserHashedPassword(db, email) ==
    LET i == ByEmail(db, email) IN
    IF i = 0 THEN EmptyPassword ELSE db[i].password

\* Variant: the blocked flag is not looked at.
GetValidatedUser_noBlockedCheck(db, email, password) ==
    LET i == ByEmail(db, email) IN
    IF i = 0 THEN [err |-> ErrNotFound, id |-> 0]
    ELSE IF db[i].provider = "google" THEN [err |-> "", id |-> i]
    ELSE IF password = << >> THEN [err |-> ErrPasswordRequired, id |-> 0]
    ELSE IF ~VerifyPassword(GetUserHashedPassword(db, email), password)
         THEN [err |-> ErrInvalidCredentials, id |-> 0]
    ELSE [err |-> "", id |-> i]

GetValidatedUser(db, email, password) ==
    LET i == ByEmail(db, email) IN
    IF i = 0 THEN [err |-> ErrNotFound, id |-> 0]
    ELSE IF db[i].blocked THEN [err |-> ErrBlocked, id |-> 0]
    ELSE IF db[i].provider = "google" THEN [err |-> "", id |-> i]
    ELSE IF password = << >> THEN [err |-> ErrPasswordRequired, id |-> 0]
    ELSE IF ~VerifyPassword(GetUserHashedPassword(db, email), password)
         THEN [err |-> ErrInvalidCredentials, id |-> 0]
    ELSE [err |-> "", id |-> i]

\* Variant: the UPDATE also empties the session column.
UpdateLoginData_dropSession(db, email, failedLogins, isBlocked) ==
    LET i == ByEmail(db, email) IN
    IF i = 0 THEN [db |-> db, err |-> ErrNotFound]
    ELSE [db |-> [db EXCEPT ![i].failed = failedLogins, ![i].blocked = isBlocked,
                            ![i].session = << >>],
          err |-> ""]

UpdateLoginData(db, email, failedLogins, isBlocked) ==
    LET i == ByEmail(db, email) IN
    IF i = 0 THEN [db |-> db, err |-> ErrNotFound]
    ELSE [db |-> [db EXCEPT ![i].failed = failedLogins, ![i].blocked = isBlocked],
          err |-> ""]

\* Variant: blocks only once the counter is past the threshold.
IncrementFrom_strict(db, email, currentFailedLogins) ==
    LET newFailedLogins == currentFailedLogins + 1
        isBlocked == newFailedLogins > FailedLoginsThreshold
    IN UpdateLoginData(db, email, newFailedLogins, isBlocked)

\* The second half of IncrementFailedLogins: the write computed from the
\* counter value that was read.
IncrementFrom(db, email, currentFailedLogins) ==
    LET newFailedLogins == currentFailedLogins + 1
        isBlocked == newFailedLogins >= FailedLoginsThreshold
    IN UpdateLoginData(db, email, newFailedLogins, isBlocked)

\* Variant: an account that is already blocked is not counted further.
IncrementFailedLogins_skipBlocked(db, email) ==
    LET i == ByEmail(db, email) IN
    IF i = 0 THEN [db |-> db, err |-> ErrNotFound]
    ELSE IF db[i].blocked THEN [db |-> db, err |-> ""]
    ELSE IncrementFrom(db, email, db[i].failed)

IncrementFailedLogins(db, email) ==
    LET i == ByEmail(db, email) IN
    IF i = 0 THEN [db |-> db, err |-> ErrNotFound]
    ELSE IncrementFrom(db, email, db[i].failed)

\* Variant: zeroes the counter and leaves the blocked flag as it is.
ResetFailedLogins_counterOnly(db, email) ==
    LET i == ByEmail(db, email) IN
    UpdateLoginData(db, email, 0, IF i = 0 THEN FALSE ELSE db[i].blocked)

ResetFailedLogins(db, email) == UpdateLoginData(db, email, 0, FALSE)

UnblockUser(db, email) == UpdateLoginData(db, email, 0, FALSE)

BlockUser(db, email) ==
    LET i == ByEmail(db, email) IN
    IF i = 0 THEN [db |-> db, err |-> ErrNotFound]
    ELSE [db |-> [db EXCEPT ![i].blocked = TRUE], err |-> ""]

\* Variant: the identifier is returned and never written to the row.
GenerateSessionID_notStored(db, email, rnd) ==
    LET sessionID == Generate2FA(rnd) IN
    IF GetUserByEmail(db, email).err # ""
    THEN [db |-> db, err |-> ErrStore, out |-> << >>]
    ELSE [db |-> db, err |-> "", out |-> sessionID]

GenerateSessionID(db, email, rnd) ==
    LET sessionID == Generate2FA(rnd)
        i == ByEmail(db, email)
        attempt == IF i = 0 THEN db ELSE [db EXCEPT ![i].session = sessionID]
        resultError == ~UniqueOK(attempt)
    IN  IF resultError \/ GetUserByEmail(db, email).err # ""
        THEN [db |-> db, err |-> ErrStore, out |-> << >>]
        ELSE [db |-> attempt, err |-> "", out |-> sessionID]

UpdateTwoFactorCode(db, email, rnd) ==
    LET _2fa == Generate2FA(rnd)
        i == ByEmail(db, email)
    IN  IF GetUserByEmail(db, email).err # ""
        THEN [db |-> db, err |-> ErrStore, out |-> << >>]
        ELSE [db |-> [db EXCEPT ![i].twofa = _2fa], err |-> "", out |-> _2fa]

\* A FullUser value as the callers of CreateUser build it.
FullUser(email, password, provider, providerId) ==
    [NoRow EXCEPT !.email = email, !.password = password,
                  !.provider = provider, !.providerId = providerId]

FreeIDs(db) == { i \in UserIDs : ~db[i].present }

\* INSERT: the column defaults apply to zero values (Provider 'local').
CreateUser(db, user) ==
    LET i == Min(FreeIDs(db))
        row == [user EXCEPT !.present = TRUE,
                            !.provider = IF user.provider = "" THEN "local" ELSE user.provider]
        attempt == [db EXCEPT ![i] = row]
    IN  IF UniqueOK(attempt) THEN [db |-> attempt, err |-> ""]
        ELSE [db |-> db, err |-> ErrStore]

\* Variant: the provider column is left out of the UPDATE.
UpdateUser_noProvider(db, user) ==
    LET i == user.id
        old == db[i]
        row == [old EXCEPT
                  !.email      = IF user.email = "" THEN old.email ELSE user.email,
                  !.session    = IF user.session = << >> THEN old.session ELSE user.session,
                  !.failed     = IF user.failed = 0 THEN old.failed ELSE user.failed,
                  !.blocked    = IF user.blocked THEN TRUE ELSE old.blocked,
                  !.password   = IF user.password = EmptyPassword THEN old.password ELSE user.password,
                  !.provider   = old.provider,
                  !.providerId = IF user.providerId = "" THEN old.providerId ELSE user.providerId]
        attempt == [db EXCEPT ![i] = row]
    IN  IF i \notin UserIDs \/ ~db[i].present THEN [db |-> db, err |-> ""]
        ELSE IF UniqueOK(attempt) THEN [db |-> attempt, err |-> ""]
        ELSE [db |-> db, err |-> ErrStore]

\* UPDATE ... WHERE id = ? with the non-zero fields of the User value.
UpdateUser(db, user) ==
    LET i == user.id
        old == db[i]
        row == [old EXCEPT
                  !.email      = IF user.email = "" THEN old.email ELSE user.email,
                  !.session    = IF user.session = << >> THEN old.session ELSE user.session,
                  !.failed     = IF user.failed = 0 THEN old.failed ELSE user.failed,
                  !.blocked    = IF user.blocked THEN TRUE ELSE old.blocked,
                  !.password   = IF user.password = EmptyPassword THEN old.password ELSE user.password,
                  !.provider   = IF user.provider = "" THEN old.provider ELSE user.provider,
                  !.providerId = IF user.providerId = "" THEN old.providerId ELSE user.providerId]
        attempt == [db EXCEPT ![i] = row]
    IN  IF i \notin UserIDs \/ ~db[i].present THEN [db |-> db, err |-> ""]
        ELSE IF UniqueOK(attempt) THEN [db |-> attempt, err |-> ""]
        ELSE [db |-> db, err |-> ErrStore]

\* A User value with every field zero except the id.
UserValue(id) ==
    [id |-> id, email |-> "", session |-> << >>, failed |-> 0, blocked |-> FALSE,
     password |-> EmptyPassword, provider |-> "", providerId |-> ""]

SetChangePasswordFlag(db, email, flag) ==
    LET i == ByEmail(db, email) IN
    IF GetUserByEmail(db, email).err # "" THEN [db |-> db, err |-> ErrNotFound]
    ELSE [db |-> [db EXCEPT ![i].changePw = flag], err |-> ""]

\* Variant: the change-password flag is left as it is.
UpdatePassword_keepFlag(db, email, newPassword) ==
    LET hashedPassword == HashPassword(newPassword)
        i == ByEmail(db, email)
        db1 == IF i = 0 THEN db ELSE [db EXCEPT ![i].password = hashedPassword]
    IN  [db |-> db1, err |-> IF i = 0 THEN ErrNotFound ELSE ""]

\* The password UPDATE, then the flag, then the outcome of the UPDATE.
UpdatePassword(db, email, newPassword) ==
    LET hashedPassword == HashPassword(newPassword)
        i == ByEmail(db, email)
        db1 == IF i = 0 THEN db ELSE [db EXCEPT ![i].password = hashedPassword]
        db2 == SetChangePasswordFlag(db1, email, FALSE).db
    IN  [db |-> db2, err |-> IF i = 0 THEN ErrNotFound ELSE ""]

\* Variant: the password is generated and returned, the row is not written.
DaoResetPassword_notStored(db, email, rnd) ==
    LET password == GeneratePassword(rnd)
        i == ByEmail(db, email)
    IN  IF i = 0 THEN [db |-> db, err |-> ErrNotFound, out |-> << >>]
        ELSE [db |-> db, err |-> "", out |-> password]

\* dao.ResetPassword (the service of the same name is ResetPassword).
DaoResetPassword(db, email, rnd) ==
    LET password == GeneratePassword(rnd)
        hashedPassword == HashPassword(password)
        i == ByEmail(db, email)
    IN  IF i = 0 THEN [db |-> db, err |-> ErrNotFound, out |-> << >>]
        ELSE [db |-> [db EXCEPT ![i].password = hashedPassword], err |-> "",
              out |-> password]

----------------------------------------------------------------------------
(* Services: one operator per function of backend_calls/user_services.go. *)
(* "user" is the row the service returns (NoRow for nil).                  *)

\* Variant: a successful login does not reset the counter.
AuthenticateUser_noReset(db, email, password, rnd) ==
    LET v == GetValidatedUser(db, email, password) IN
    IF v.err # ""
    THEN [db |-> IncrementFailedLogins(db, email).db, err |-> v.err, user |-> NoRow]
    ELSE LET db2 == GenerateSessionID(db, email, rnd).db
             v2  == GetValidatedUser(db2, email, password)
         IN  [db |-> db2, err |-> "",
              user |-> IF v2.err = "" THEN db2[v2.id] ELSE NoRow]

AuthenticateUser(db, email, password, rnd) ==
    LET v == GetValidatedUser(db, email, password) IN
    IF v.err # ""
    THEN [db |-> IncrementFailedLogins(db, email).db, err |-> v.err, user |-> NoRow]
    ELSE LET db1 == ResetFailedLogins(db, email).db
             db2 == GenerateSessionID(db1, email, rnd).db
             v2  == GetValidatedUser(db2, email, password)
         IN  [db |-> db2, err |-> "",
              user |-> IF v2.err = "" THEN db2[v2.id] ELSE NoRow]

\* Variant: an empty stored code is compared like any other.
AuthenticateUser2FA_noEmptyCheck(db, sessionID, code) ==
    LET u == GetUserBySessionID(db, sessionID)
        g == Get2FA(db, sessionID)
    IN  IF u.err # "" THEN [db |-> db, err |-> ErrSessionLookup, user |-> NoRow]
        ELSE IF g.err # "" THEN [db |-> db, err |-> ErrSessionLookup, user |-> NoRow]
        ELSE IF g.code # code
             THEN [db |-> db, err |-> ErrInvalid2FA, user |-> NoRow]
        ELSE LET db1 == ResetFailedLogins(db, db[u.id].email).db
                 w   == GetUserBySessionID(db1, sessionID)
             IN  [db |-> db1, err |-> "",
                  user |-> IF w.err = "" THEN db1[w.id] ELSE NoRow]

AuthenticateUser2FA(db, sessionID, code) ==
    LET u == GetUserBySessionID(db, sessionID)
        g == Get2FA(db, sessionID)
    IN  IF u.err # "" THEN [db |-> db, err |-> ErrSessionLookup, user |-> NoRow]
        ELSE IF g.err # "" THEN [db |-> db, err |-> ErrSessionLookup, user |-> NoRow]
        ELSE IF g.code = << >> \/ g.code # code
             THEN [db |-> db, err |-> ErrInvalid2FA, user |-> NoRow]
        ELSE LET db1 == ResetFailedLogins(db, db[u.id].email).db
                 w   == GetUserBySessionID(db1, sessionID)
             IN  [db |-> db1, err |-> "",
                  user |-> IF w.err = "" THEN db1[w.id] ELSE NoRow]

\* Variant: the stored code is put back when the mail cannot be sent.
RefreshUser2FAToken_rollback(db, email, rnd, mailOK) ==
    LET g == UpdateTwoFactorCode(db, email, rnd) IN
    IF g.out = << >> \/ g.err # ""
    THEN [db |-> g.db, err |-> ErrGenerate2FA, out |-> << >>, mailed |-> FALSE]
    ELSE IF ~mailOK
    THEN [db |-> db, err |-> ErrSend2FA, out |-> << >>, mailed |-> FALSE]
    ELSE [db |-> g.db, err |-> "", out |-> g.out, mailed |-> TRUE]

\* mailOK is the outcome of mailer.Send2FAToken.
RefreshUser2FAToken(db, email, rnd, mailOK) ==
    LET g == UpdateTwoFactorCode(db, email, rnd) IN
    IF g.out = << >> \/ g.err # ""
    THEN [db |-> g.db, err |-> ErrGenerate2FA, out |-> << >>, mailed |-> FALSE]
    ELSE IF ~mailOK
    THEN [db |-> g.db, err |-> ErrSend2FA, out |-> << >>, mailed |-> FALSE]
    ELSE [db |-> g.db, err |-> "", out |-> g.out, mailed |-> TRUE]

\* Identity tokens: what idtoken.Validate makes of them.
GoodToken(email) == [raw |-> "id-token", valid |-> TRUE, email |-> email, sub |-> "sub123"]

NoEmailToken == [raw |-> "id-token-no-email", valid |-> TRUE, email |-> "", sub |-> "sub123"]

ForgedToken(email) == [raw |-> "forged", valid |-> FALSE, email |-> email, sub |-> "sub123"]

EmptyToken == [raw |-> "", valid |-> FALSE, email |-> "", sub |-> ""]

verifyGoogleToken(idToken) ==
    IF idToken.valid
    THEN [err |-> "", email |-> idToken.email, sub |-> idToken.sub]
    ELSE [err |-> ErrGoogleToken, email |-> "", sub |-> ""]

\* Variant: the account is looked up by the email of the request.
AuthenticateGoogleUser_requestEmail(db, reqEmail, idToken, rnd) ==
    LET payload == verifyGoogleToken(idToken)
        email == IF reqEmail # "" THEN reqEmail ELSE payload.email
        googleID == payload.sub
        existingUser == GetUserByEmail(db, email)
        created == CreateUser(db, FullUser(email, EmptyPassword, "google", googleID))
        linked == UpdateUser(db, [UserValue(existingUser.id) EXCEPT
                                    !.email = db[existingUser.id].email,
                                    !.provider = "google", !.providerId = googleID])
        step == IF existingUser.err # "" THEN [db |-> created.db, err |-> IF created.err # "" THEN ErrGoogleCreate ELSE ""]
                ELSE IF db[existingUser.id].provider # "google"
                     THEN [db |-> linked.db, err |-> IF linked.err # "" THEN ErrGoogleUpdate ELSE ""]
                ELSE [db |-> db, err |-> ""]
        gen == GenerateSessionID(step.db, email, rnd)
        v == GetValidatedUser(gen.db, email, << >>)
        n == GetUserByEmail(gen.db, email)
    IN  IF payload.err # "" THEN [db |-> db, err |-> ErrGoogleToken, user |-> NoRow]
        ELSE IF email = "" THEN [db |-> db, err |-> ErrGoogleEmail, user |-> NoRow]
        ELSE IF step.err # "" THEN [db |-> step.db, err |-> step.err, user |-> NoRow]
        ELSE IF gen.err # "" THEN [db |-> gen.db, err |-> ErrGoogleSession, user |-> NoRow]
        ELSE IF v.err = "" THEN [db |-> gen.db, err |-> "", user |-> gen.db[v.id]]
        ELSE IF n.err # "" THEN [db |-> gen.db, err |-> ErrSessionLookup, user |-> NoRow]
        ELSE [db |-> gen.db, err |-> "",
              user |-> [gen.db[n.id] EXCEPT !.provider = "google", !.providerId = googleID,
                                            !.session = gen.out, !.password = EmptyPassword]]

\* reqEmail is the Email field of the request; the function never reads it.
AuthenticateGoogleUser(db, reqEmail, idToken, rnd) ==
    LET payload == verifyGoogleToken(idToken)
        email == payload.email
        googleID == payload.sub
        existingUser == GetUserByEmail(db, email)
        created == CreateUser(db, FullUser(email, EmptyPassword, "google", googleID))
        linked == UpdateUser(db, [UserValue(existingUser.id) EXCEPT
                                    !.email = db[existingUser.id].email,
                                    !.provider = "google", !.providerId = googleID])
        step == IF existingUser.err # "" THEN [db |-> created.db, err |-> IF created.err # "" THEN ErrGoogleCreate ELSE ""]
                ELSE IF db[existingUser.id].provider # "google"
                     THEN [db |-> linked.db, err |-> IF linked.err # "" THEN ErrGoogleUpdate ELSE ""]
                ELSE [db |-> db, err |-> ""]
        gen == GenerateSessionID(step.db, email, rnd)
        v == GetValidatedUser(gen.db, email, << >>)
        n == GetUserByEmail(gen.db, email)
    IN  IF payload.err # "" THEN [db |-> db, err |-> ErrGoogleToken, user |-> NoRow]
        ELSE IF email = "" THEN [db |-> db, err |-> ErrGoogleEmail, user |-> NoRow]
        ELSE IF step.err # "" THEN [db |-> step.db, err |-> step.err, user |-> NoRow]
        ELSE IF gen.err # "" THEN [db |-> gen.db, err |-> ErrGoogleSession, user |-> NoRow]
        ELSE IF v.err = "" THEN [db |-> gen.db, err |-> "", user |-> gen.db[v.id]]
        ELSE IF n.err # "" THEN [db |-> gen.db, err |-> ErrSessionLookup, user |-> NoRow]
        ELSE [db |-> gen.db, err |-> "",
              user |-> [gen.db[n.id] EXCEPT !.provider = "google", !.providerId = googleID,
                                            !.session = gen.out, !.password = EmptyPassword]]

RegisterUser(db, user) == CreateUser(db, user)

UpdateUserProfile(db, user) == UpdateUser(db, user)

\* Variant: the provider of the account is not looked at.
ResetPassword_anyProvider(db, email, rnd) ==
    LET user == GetUserByEmail(db, email)
        r == DaoResetPassword(db, email, rnd)
    IN  IF user.id = 0 THEN [db |-> db, err |-> ErrPanic, out |-> << >>]
        ELSE IF r.err # "" THEN [db |-> r.db, err |-> ErrResetPassword, out |-> << >>]
        ELSE r

\* user is nil when the email is unknown, and user.Provider panics.
ResetPassword(db, email, rnd) ==
    LET user == GetUserByEmail(db, email)
        r == DaoResetPassword(db, email, rnd)
    IN  IF user.id = 0 THEN [db |-> db, err |-> ErrPanic, out |-> << >>]
        ELSE IF db[user.id].provider # "local"
             THEN [db |-> db, err |-> ErrProvider, out |-> << >>]
        ELSE IF r.err # "" THEN [db |-> r.db, err |-> ErrResetPassword, out |-> << >>]
        ELSE r

\* flagOK is the outcome of the UPDATE of dao.SetChangePasswordFlag, mailOK
\* the outcome of mailer.SendPassword.
SendNewPassword(db, email, password, flagOK, mailOK) ==
    LET f == IF flagOK THEN SetChangePasswordFlag(db, email, TRUE)
             ELSE [db |-> db, err |-> ErrStore]
    IN
    IF f.err # "" THEN [db |-> f.db, err |-> ErrChangeFlag, mailed |-> FALSE]
    ELSE IF ~mailOK THEN [db |-> f.db, err |-> ErrSendPassword, mailed |-> FALSE]
    ELSE [db |-> f.db, err |-> "", mailed |-> TRUE]

UpdateUserPassword(db, email, password) ==
    LET r == UpdatePassword(db, email, password) IN
    IF GetUserByEmail(db, email).err # "" THEN [db |-> db, err |-> ErrNotFound]
    ELSE IF r.err # "" THEN [db |-> r.db, err |-> ErrUpdatePassword]
    ELSE r

----------------------------------------------------------------------------
(* Scopes: the input universe of a run.  A run draws every request from   *)
(* the sets of its scope; the scopes together cover one account with the   *)
(* whole lockout range, one account with several tokens, and two accounts. *)

AllUpdates == {"password", "blocked", "failed", "provider", "providerId", "session"}

ScopeLockout ==
    [name |-> "lockout", emails |-> {"a@x.com"}, seeds |-> {7}, cap |-> MaxFailed,
     loginPw |-> {Pw1, PwBad, << >>}, tokenEmails |-> {"a@x.com"},
     createPw |-> {<< >>, Pw1}, createProviders |-> {"", "google"}, createSubs |-> {""},
     updates |-> {"password", "blocked", "failed", "provider"}, manual |-> TRUE,
     refresh |-> TRUE, reset |-> FALSE, newPw |-> {}, rand |-> TRUE]

ScopeTokens ==
    [name |-> "tokens", emails |-> {"a@x.com"}, seeds |-> {7, 255}, cap |-> SmallCap,
     loginPw |-> {Pw1, PwBad}, tokenEmails |-> {},
     createPw |-> {Pw1}, createProviders |-> {""}, createSubs |-> {""},
     updates |-> {"password", "session"}, manual |-> FALSE, refresh |-> TRUE,
     reset |-> FALSE, newPw |-> {}, rand |-> TRUE]

ScopePair ==
    [name |-> "pair", emails |-> Emails, seeds |-> {255}, cap |-> SmallCap,
     loginPw |-> {Pw1}, tokenEmails |-> {"g@x.com"},
     createPw |-> {Pw1}, createProviders |-> {"", "google"}, createSubs |-> {"", "sub123"},
     updates |-> {"password", "providerId"}, manual |-> FALSE, refresh |-> FALSE,
     reset |-> FALSE, newPw |-> {}, rand |-> TRUE]

\* The temporary passwords the generator can produce from the given seeds.
TempPasswords(seeds) ==
    { GeneratePassword(r) : r \in RandRead(TempPasswordLength, seeds, TRUE) }

ScopeReset ==
    [name |-> "reset", emails |-> {"a@x.com"}, seeds |-> {7}, cap |-> SmallCap,
     loginPw |-> {Pw1} \cup TempPasswords({7}), tokenEmails |-> {},
     createPw |-> {Pw1}, createProviders |-> {"", "google"}, createSubs |-> {""},
     updates |-> {"password"}, manual |-> FALSE, refresh |-> FALSE,
     reset |-> TRUE, newPw |-> {Pw1}, rand |-> TRUE]

\* One account served while crypto/rand.Read may report an error.
ScopeRand ==
    [name |-> "rand", emails |-> {"a@x.com"}, seeds |-> {7}, cap |-> SmallCap,
     loginPw |-> {Pw1, << >>}, tokenEmails |-> {},
     createPw |-> {Pw1}, createProviders |-> {""}, createSubs |-> {""},
     updates |-> {"password"}, manual |-> FALSE, refresh |-> TRUE,
     reset |-> TRUE, newPw |-> {}, rand |-> FALSE]

Scopes == {ScopeLockout, ScopeTokens, ScopePair, ScopeReset, ScopeRand}

EmailInputs == scope.emails \cup {""}

SessionTokens == { Generate2FA(r) : r \in RandRead(SessionIDLength, scope.seeds, TRUE) }

CodeTokens == { Generate2FA(r) : r \in RandRead(TwoFactorLength, scope.seeds, TRUE) }

SessionInputs == SessionTokens \cup {<< >>}

CodeInputs == CodeTokens \cup {<< >>, WrongCode}

NameInputs == {"", "Ana"}

IDTokens ==
    { GoodToken(e) : e \in scope.tokenEmails } \cup { ForgedToken(e) : e \in scope.tokenEmails }
    \cup (IF scope.tokenEmails = {} THEN {} ELSE {NoEmailToken, EmptyToken})

\* The bodies of PUT /api/users/:id requests: one column set per request.
UpdateInputs(id) ==
    { u \in
        { [UserValue(id) EXCEPT !.password = Raw(Pw1)] }
        \cup { [UserValue(id) EXCEPT !.blocked = TRUE] }
        \cup { [UserValue(id) EXCEPT !.failed = 1] }
        \cup { [UserValue(id) EXCEPT !.provider = pr] : pr \in Providers }
        \cup { [UserValue(id) EXCEPT !.providerId = sub] : sub \in Subjects }
        \cup { [UserValue(id) EXCEPT !.session = t] : t \in SessionTokens } :
      \/ ("password" \in scope.updates /\ u.password # EmptyPassword)
      \/ ("blocked" \in scope.updates /\ u.blocked)
      \/ ("failed" \in scope.updates /\ u.failed # 0)
      \/ ("provider" \in scope.updates /\ u.provider # "")
      \/ ("providerId" \in scope.updates /\ u.providerId # "")
      \/ ("session" \in scope.updates /\ u.session # << >>) }

----------------------------------------------------------------------------
(* Bookkeeping of the requests served *)

\* The response record: the operation, the row it concerned, its error (""
\* on success), the session identifier and code it carried, the position
\* in the login -> refresh -> verify sequence, and facts about its input.
Resp(op, id, err) ==
    [op |-> op, id |-> id, err |-> err, session |-> << >>, code |-> << >>,
     chain |-> 0, tags |-> {}]

NoRequest == Resp("none", 0, "")

NoStreak == [n |-> 0, err |-> "", pwok |-> FALSE, wrongs |-> 0, ff |-> FALSE]

\* The run of consecutive AuthenticateUser calls on each row: it starts
\* with a failed call on a row whose counter is 0, goes on while the calls
\* fail, records the call that follows them, and ends with any other change
\* of the row.  "wrongs" counts the calls of the run that carried a wrong
\* (non-empty) password, "pwok" tells whether the latest carried the right one.
StreakNext(db2, loginId, err, password) ==
    [i \in UserIDs |->
        IF i = loginId
        THEN LET pwok == VerifyPassword(users[i].password, password)
                 wrong == IF password # << >> /\ ~pwok THEN 1 ELSE 0
             IN  IF streak[i].n > 0 /\ streak[i].err # ""
                 THEN [n |-> streak[i].n + 1, err |-> err, pwok |-> pwok,
                       wrongs |-> streak[i].wrongs + wrong, ff |-> FALSE]
                 ELSE IF users[i].failed = 0 /\ err # ""
                 THEN [n |-> 1, err |-> err, pwok |-> pwok, wrongs |-> wrong, ff |-> FALSE]
                 ELSE NoStreak
        ELSE IF db2[i] # users[i] THEN NoStreak
        ELSE streak[i]]

\* Whether the session identifier row i holds after the request was stored
\* by a successful first-factor login (AuthenticateUser or
\* AuthenticateGoogleUser): set by such a login, lost when anything else
\* writes the column.
FirstFactor(i, db2, resp) ==
    IF /\ resp.op \in {"login", "google"} /\ resp.err = "" /\ resp.id = i
       /\ db2[i].session # << >> /\ db2[i].session = resp.session
    THEN TRUE
    ELSE IF db2[i].session # users[i].session THEN FALSE
    ELSE streak[i].ff

WithinBounds(db) == \A i \in UserIDs : db[i].failed <= scope.cap

Served(db2, resp, loginId, password) ==
    /\ WithinBounds(db2)
    /\ users' = db2
    /\ last' = resp
    /\ streak' = [i \in UserIDs |->
                     [StreakNext(db2, loginId, resp.err, password)[i] EXCEPT
                        !.ff = FirstFactor(i, db2, resp)]]
    /\ UNCHANGED <<scope, randOK, pc, loc, tally>>

----------------------------------------------------------------------------
(* Handlers (api/handlers/users_handler.go), one request each *)

\* The JSON body of a models.User: the fields of the struct under their
\* json names (the struct has no change-password field).
UserJSON(row) ==
    [email |-> row.email, session_id |-> row.session,
     failed_logins |-> row.failed, is_blocked |-> row.blocked,
     provider |-> row.provider, provider_id |-> row.providerId]

\* login.ts onLoginSuccess: the page the client goes to after step 1.
onLoginSuccess(content) ==
    IF "change_pass" \in DOMAIN content /\ content["change_pass"] = TRUE
    THEN "/change-pass" ELSE "/twofa"

\* Variant: a successful login also empties the stored two-factor code.
HandleManualLogin_clearsCode(email, password, rnd) ==
    LET r == AuthenticateUser(users, email, password, rnd)
        id == ByEmail(users, email)
        cleared == IF r.err = "" /\ id # 0
                   THEN [r.db EXCEPT ![id].twofa = << >>] ELSE r.db
    IN  Served(cleared,
               [Resp("login", id, r.err) EXCEPT
                  !.session = r.user.session,
                  !.chain = IF r.err = "" THEN 1 ELSE 0,
                  !.tags = (IF r.err = "" /\ onLoginSuccess(UserJSON(r.user)) = "/change-pass"
                            THEN {"change-pass"} ELSE {})
                           \cup (IF r.err = "" /\ id # 0 /\ users[id].session # << >>
                                    /\ r.db[id].session # users[id].session
                                 THEN {"rotated"} ELSE {})
                           \cup (IF email = "" \/ password = << >>
                                 THEN {"missing"} ELSE {})
                           \cup (IF rnd.err THEN {"rand-failed"} ELSE {})],
               id, password)

HandleManualLogin(email, password, rnd) ==
    LET r == AuthenticateUser(users, email, password, rnd)
        id == ByEmail(users, email)
    IN  Served(r.db,
               [Resp("login", id, r.err) EXCEPT
                  !.session = r.user.session,
                  !.chain = IF r.err = "" THEN 1 ELSE 0,
                  !.tags = (IF r.err = "" /\ onLoginSuccess(UserJSON(r.user)) = "/change-pass"
                            THEN {"change-pass"} ELSE {})
                           \cup (IF r.err = "" /\ id # 0 /\ users[id].session # << >>
                                    /\ r.db[id].session # users[id].session
                                 THEN {"rotated"} ELSE {})
                           \cup (IF email = "" \/ password = << >>
                                 THEN {"missing"} ELSE {})
                           \cup (IF rnd.err THEN {"rand-failed"} ELSE {})],
               id, password)

Handle2FAAuth(sessionID, code) ==
    IF sessionID = << >> \/ code = << >>
    THEN Served(users, Resp("2fa", 0, ErrBadRequest), 0, << >>)
    ELSE LET r == AuthenticateUser2FA(users, sessionID, code)
             follows == last.chain \in {2, 3} /\ sessionID = last.session
             afterFailedSend == /\ last.op = "refresh" /\ last.err = ErrSend2FA
                                /\ last.id # 0 /\ code = last.code
                                /\ sessionID = users[last.id].session
             afterLogin == /\ last.op = "login" /\ last.err = "" /\ last.id # 0
                           /\ sessionID = last.session
         IN  Served(r.db,
                    [Resp("2fa", IF follows THEN last.id ELSE BySession(users, sessionID), r.err)
                       EXCEPT !.session = sessionID, !.code = code,
                              !.chain = IF follows THEN 3 ELSE 0,
                              !.tags = (IF afterFailedSend
                                        THEN {"send-failed"} \cup (last.tags \cap {"overwrote"})
                                        ELSE {})
                                       \cup (IF afterLogin
                                             THEN {"after-login"} \cup (last.tags \cap {"rotated"})
                                             ELSE {})],
                    0, << >>)

HandleRefresh2FAToken(email, rnd, mailOK) ==
    IF email = ""
    THEN Served(users, Resp("refresh", 0, ErrBadRequest), 0, << >>)
    ELSE /\ scope.refresh
         /\ LET r == RefreshUser2FAToken(users, email, rnd, mailOK)
                id == ByEmail(users, email)
                follows == last.op = "login" /\ last.chain = 1 /\ last.id = id /\ id # 0
            IN  Served(r.db,
                       [Resp("refresh", id, r.err) EXCEPT
                          !.session = IF follows THEN last.session ELSE << >>,
                          !.code = IF id = 0 THEN << >> ELSE r.db[id].twofa,
                          !.chain = IF follows THEN 2 ELSE 0,
                          !.tags = (IF r.mailed THEN {"mailed"} ELSE {})
                                   \cup (IF id # 0 /\ users[id].twofa # << >>
                                            /\ r.db[id].twofa # users[id].twofa
                                         THEN {"overwrote"} ELSE {})
                                   \cup (IF rnd.err THEN {"rand-failed"} ELSE {})],
                       0, << >>)

HandleGoogleLogin(reqEmail, idToken, rnd) ==
    IF reqEmail = "" \/ idToken.raw = ""
    THEN Served(users, Resp("google", 0, ErrBadRequest), 0, << >>)
    ELSE /\ FreeIDs(users) # {} \/ ByEmail(users, idToken.email) # 0
         /\ LET r == AuthenticateGoogleUser(users, reqEmail, idToken, rnd)
                unseen == idToken.valid /\ idToken.email # ""
                          /\ ByEmail(users, idToken.email) = 0
                subfree == \A i \in UserIDs : users[i].providerId # idToken.sub
                known == ByEmail(users, idToken.email)
                link == idToken.valid /\ known # 0 /\ users[known].provider # "google"
                linkfree == \A i \in UserIDs : i # known => users[i].providerId # idToken.sub
                grew == Cardinality({ i \in UserIDs : r.db[i].present })
                          > Cardinality({ i \in UserIDs : users[i].present })
            IN  Served(r.db,
                       [Resp("google", ByEmail(r.db, idToken.email), r.err) EXCEPT
                          !.session = r.user.session,
                          !.tags = (IF reqEmail # idToken.email THEN {"other-email"} ELSE {})
                                   \cup (IF unseen THEN {"unseen"} ELSE {})
                                   \cup (IF unseen /\ subfree THEN {"subfree"} ELSE {})
                                   \cup (IF link THEN {"link"} ELSE {})
                                   \cup (IF link /\ linkfree THEN {"linkfree"} ELSE {})
                                   \cup (IF grew THEN {"grew"} ELSE {})],
                       0, << >>)

HandleCreateUser(name, email, password, provider, providerId) ==
    IF name = ""
    THEN Served(users, Resp("create", 0, ErrBadRequest), 0, << >>)
    ELSE /\ FreeIDs(users) # {}
         /\ LET r == RegisterUser(users, FullUser(email, Raw(password), provider, providerId)) IN
            Served(r.db, Resp("create", IF r.err = "" THEN ByEmail(r.db, email) ELSE 0, r.err),
                   0, << >>)

HandleUpdateUser(user) ==
    LET hashed == IF user.password # EmptyPassword
                  THEN [user EXCEPT !.password = HashPassword(user.password.of)]
                  ELSE user
        r == UpdateUserProfile(users, hashed)
    IN  Served(r.db, Resp("update", user.id, r.err), 0, << >>)

\* dao.BlockUser and dao.UnblockUser, the manual lock and unlock.
ManualBlock(email) ==
    LET r == BlockUser(users, email) IN
    /\ scope.manual
    /\ Served(r.db, Resp("block", ByEmail(users, email), r.err), 0, << >>)

ManualUnblock(email) ==
    LET r == UnblockUser(users, email) IN
    /\ scope.manual
    /\ Served(r.db, Resp("unblock", ByEmail(users, email), r.err), 0, << >>)

HandleResetPassword(email, rnd) ==
    /\ scope.reset
    /\ IF email = ""
       THEN Served(users, Resp("reset", 0, ErrBadRequest), 0, << >>)
       ELSE LET r == ResetPassword(users, email, rnd)
                id == ByEmail(users, email)
            IN  Served(r.db,
                       [Resp("reset", id, r.err) EXCEPT
                          !.code = r.out,
                          !.tags = (IF id # 0 /\ users[id].provider # "local"
                                    THEN {"nonlocal"} ELSE {})
                                   \cup (IF rnd.err THEN {"rand-failed"} ELSE {})],
                       0, << >>)

HandleForgotPassword(email, rnd, flagOK, mailOK) ==
    /\ scope.reset
    /\ IF email = ""
       THEN Served(users, Resp("forgot", 0, ErrBadRequest), 0, << >>)
       ELSE LET r == ResetPassword(users, email, rnd)
                n == SendNewPassword(r.db, email, r.out, flagOK, mailOK)
                id == ByEmail(users, email)
                nonlocal == (IF id # 0 /\ users[id].provider # "local"
                             THEN {"nonlocal"} ELSE {})
                            \cup (IF rnd.err THEN {"rand-failed"} ELSE {})
            IN  IF r.err # ""
                THEN Served(r.db, [Resp("forgot", id, r.err) EXCEPT !.tags = nonlocal],
                            0, << >>)
                ELSE Served(n.db,
                            [Resp("forgot", id, n.err) EXCEPT
                               !.code = r.out,
                               !.tags = nonlocal
                                        \cup (IF n.mailed THEN {"mailed"} ELSE {})
                                        \cup (IF \E p \in scope.loginPw :
                                                   /\ p # r.out
                                                   /\ GetValidatedUser(users, email, p).err = ""
                                              THEN {"prev-valid"} ELSE {})],
                            0, << >>)

HandleUpdateUserPassword(email, password) ==
    /\ scope.reset
    /\ IF email = "" \/ password = << >>
       THEN Served(users, Resp("changepw", 0, ErrBadRequest), 0, << >>)
       ELSE LET r == UpdateUserPassword(users, email, password)
                id == ByEmail(users, email)
            IN  Served(r.db,
                       [Resp("changepw", id, r.err) EXCEPT
                          !.code = password,
                          !.tags = IF id # 0 /\ users[id].changePw
                                   THEN {"flagged"} ELSE {}],
                       0, << >>)

----------------------------------------------------------------------------
(* The sequential system: requests served one at a time *)

Idle == [at |-> "idle", email |-> "", password |-> << >>, err |-> "", read |-> 0]

NoTally == [id |-> 0, start |-> 0, incs |-> 0, resets |-> 0, since |-> 0]

Init ==
    /\ scope \in Scopes
    /\ users = [i \in UserIDs |-> NoRow]
    /\ randOK = scope.rand
    /\ last = NoRequest
    /\ streak = [i \in UserIDs |-> NoStreak]
    /\ pc = [p \in Procs |-> "idle"]
    /\ loc = [p \in Procs |-> Idle]
    /\ tally = NoTally

Next ==
    \/ \E e \in EmailInputs, p \in scope.loginPw,
          rnd \in RandRead(SessionIDLength, scope.seeds, randOK) :
          HandleManualLogin(e, p, rnd)
    \/ \E s \in SessionInputs, c \in CodeInputs : Handle2FAAuth(s, c)
    \/ \E e \in EmailInputs, rnd \in RandRead(TwoFactorLength, scope.seeds, randOK),
          m \in BOOLEAN :
          HandleRefresh2FAToken(e, rnd, m)
    \/ \E e \in EmailInputs, t \in IDTokens,
          rnd \in RandRead(SessionIDLength, scope.seeds, randOK) :
          HandleGoogleLogin(e, t, rnd)
    \/ \E n \in NameInputs, e \in scope.emails, p \in scope.createPw,
          pr \in scope.createProviders, sub \in scope.createSubs :
          HandleCreateUser(n, e, p, pr, sub)
    \/ \E i \in UserIDs : \E u \in UpdateInputs(i) : HandleUpdateUser(u)
    \/ \E e \in scope.emails : ManualBlock(e)
    \/ \E e \in scope.emails : ManualUnblock(e)
    \/ \E e \in EmailInputs,
          rnd \in RandRead(TempPasswordLength, scope.seeds, randOK) :
          HandleResetPassword(e, rnd)
    \/ \E e \in EmailInputs,
          rnd \in RandRead(TempPasswordLength, scope.seeds, randOK),
          f \in BOOLEAN, m \in BOOLEAN :
          HandleForgotPassword(e, rnd, f, m)
    \/ \E e \in EmailInputs, p \in scope.newPw \cup {<< >>} :
          HandleUpdateUserPassword(e, p)

Spec == Init /\ [][Next]_vars

----------------------------------------------------------------------------
(* Concurrent logins.  Each request runs in its own goroutine and every    *)
(* DAO call is one autocommitted statement, so the statements of different *)
(* requests interleave.  pc[p] is the statement request p runs next and     *)
(* loc[p] holds its local variables.                                        *)

MaxCalls == 4

\* The account the interleaved logins are about, after n failed logins.
RaceAccount(n) ==
    [NoRow EXCEPT !.present = TRUE, !.email = "a@x.com",
                  !.password = HashPassword(Pw1), !.provider = "local",
                  !.failed = n]

Goto(p, at, l) ==
    /\ pc' = [pc EXCEPT ![p] = at]
    /\ loc' = [loc EXCEPT ![p] = [l EXCEPT !.at = at]]

Started == tally.incs + tally.resets + Cardinality({ q \in Procs : pc[q] # "idle" })

\* AuthenticateUser up to the outcome of GetValidatedUser.
LoginBegin(p, email, password) ==
    /\ pc[p] = "idle"
    /\ Started < MaxCalls
    /\ LET v == GetValidatedUser(users, email, password) IN
       Goto(p, IF v.err # "" THEN "increment-read" ELSE "reset",
            [Idle EXCEPT !.email = email, !.password = password, !.err = v.err])
    /\ UNCHANGED <<scope, users, randOK, last, streak, tally>>

\* IncrementFailedLogins: the SELECT of failed_logins.
IncrementRead(p) ==
    /\ pc[p] = "increment-read"
    /\ LET i == ByEmail(users, loc[p].email) IN
       IF i = 0 THEN Goto(p, "return", loc[p])
       ELSE Goto(p, "increment-write", [loc[p] EXCEPT !.read = users[i].failed])
    /\ UNCHANGED <<scope, users, randOK, last, streak, tally>>

\* IncrementFailedLogins: the UPDATE computed from the value read.
IncrementWrite(p) ==
    /\ pc[p] = "increment-write"
    /\ users' = IncrementFrom(users, loc[p].email, loc[p].read).db
    /\ tally' = [tally EXCEPT !.incs = @ + 1, !.since = @ + 1]
    /\ Goto(p, "return", loc[p])
    /\ UNCHANGED <<scope, randOK, last, streak>>

LoginReset(p) ==
    /\ pc[p] = "reset"
    /\ users' = ResetFailedLogins(users, loc[p].email).db
    /\ tally' = [tally EXCEPT !.resets = @ + 1, !.since = 0]
    /\ Goto(p, "session", loc[p])
    /\ UNCHANGED <<scope, randOK, last, streak>>

LoginSession(p, rnd) ==
    /\ pc[p] = "session"
    /\ users' = GenerateSessionID(users, loc[p].email, rnd).db
    /\ Goto(p, "return", loc[p])
    /\ UNCHANGED <<scope, randOK, last, streak, tally>>

\* The response: the error of the first validation, or the re-read user.
LoginReturn(p) ==
    /\ pc[p] = "return"
    /\ LET v2 == GetValidatedUser(users, loc[p].email, loc[p].password)
           id == ByEmail(users, loc[p].email)
       IN  last' = [Resp("login", id, loc[p].err) EXCEPT
                      !.session = IF loc[p].err = "" /\ v2.err = ""
                                  THEN users[v2.id].session ELSE << >>]
    /\ Goto(p, "idle", Idle)
    /\ UNCHANGED <<scope, users, randOK, streak, tally>>

InitRace ==
    /\ scope = ScopeLockout
    /\ \E n \in {0, FailedLoginsThreshold - 2} :
          /\ users = [i \in UserIDs |-> IF i = 1 THEN RaceAccount(n) ELSE NoRow]
          /\ tally = [NoTally EXCEPT !.id = 1, !.start = n, !.since = n]
    /\ randOK = TRUE
    /\ last = NoRequest
    /\ streak = [i \in UserIDs |-> NoStreak]
    /\ pc = [p \in Procs |-> "idle"]
    /\ loc = [p \in Procs |-> Idle]

NextRace ==
    \/ \E p \in Procs, e \in scope.emails, pw \in {Pw1, PwBad} : LoginBegin(p, e, pw)
    \/ \E p \in Procs : IncrementRead(p)
    \/ \E p \in Procs : IncrementWrite(p)
    \/ \E p \in Procs : LoginReset(p)
    \/ \E p \in Procs, rnd \in RandRead(SessionIDLength, scope.seeds, randOK) :
          LoginSession(p, rnd)
    \/ \E p \in Procs : LoginReturn(p)

SpecRace == InitRace /\ [][NextRace]_vars

----------------------------------------------------------------------------
(* Lockout *)

LocalAccount(i) == users[i].present /\ users[i].provider = "local"

\* C1: on a local account whose counter started at 0, N < 5 consecutive
\* failed AuthenticateUser calls leave blocked = false, the 5th leaves
\* blocked = true, and every call after them is rejected as blocked,
\* whatever password it carries.
C1_LockoutAfterFive ==
    \A i \in UserIDs :
        (LocalAccount(i) /\ streak[i].n > 0) =>
            /\ (streak[i].n < FailedLoginsThreshold /\ streak[i].err # "") => ~users[i].blocked
            /\ (streak[i].n = FailedLoginsThreshold /\ streak[i].err # "") => users[i].blocked
            /\ streak[i].n > FailedLoginsThreshold =>
                   (streak[i].err = ErrBlocked /\ users[i].blocked)

\* A sixth call carrying the right password has been answered "blocked".
C1_Witness ==
    \E i \in UserIDs :
        /\ LocalAccount(i) /\ users[i].blocked
        /\ streak[i].n > FailedLoginsThreshold /\ streak[i].pwok
        /\ streak[i].err = ErrBlocked

\* C2: AuthenticateUser never succeeds (and so never issues a session
\* identifier) for an account whose provider is google, whatever the password.
C2_GoogleNeverLocal ==
    ~(/\ last.op = "login" /\ last.err = "" /\ last.id # 0
      /\ users[last.id].provider = "google")

\* C3 as claimed: five consecutive wrong-password logins from counter 0:
\* the 5th is answered "blocked", and so is a following login with the
\* right password.
C3_FifthAnsweredBlocked ==
    \A i \in UserIDs :
        /\ (streak[i].n = 5 /\ streak[i].wrongs = 5) => streak[i].err = ErrBlocked
        /\ (streak[i].n = 6 /\ streak[i].wrongs = 5 /\ streak[i].pwok) => streak[i].err = ErrBlocked

\* C3 amended: the 5th wrong-password login is answered "invalid
\* credentials" and leaves the account blocked; the following login with
\* the right password is answered "blocked".
C3_FifthAnsweredInvalid ==
    \A i \in UserIDs :
        /\ (streak[i].n = 5 /\ streak[i].wrongs = 5) =>
               (streak[i].err = ErrInvalidCredentials /\ users[i].blocked)
        /\ (streak[i].n = 6 /\ streak[i].wrongs = 5 /\ streak[i].pwok) =>
               (streak[i].err = ErrBlocked /\ users[i].blocked)

C3_Witness ==
    \E i \in UserIDs :
        streak[i].n = 6 /\ streak[i].wrongs = 5 /\ streak[i].pwok /\ last.op = "login"

\* C4: a successful AuthenticateUser and a successful AuthenticateUser2FA
\* leave the account with failed-login counter 0 and blocked = false.
C4_SuccessResets ==
    (last.op \in {"login", "2fa"} /\ last.err = "") =>
        /\ last.id # 0
        /\ users[last.id].failed = 0
        /\ ~users[last.id].blocked

\* A login succeeded right after failed ones.
C4_Witness ==
    \E i \in UserIDs :
        /\ last.op = "login" /\ last.err = "" /\ last.id = i
        /\ streak[i].n >= 2 /\ streak[i].err = ""
        /\ users[i].failed = 0

C6_LoginRefreshVerify ==
    (last.op = "2fa" /\ last.chain = 3 /\ last.session # << >>) =>
        /\ last.id # 0
        /\ users[last.id].session = last.session
        /\ last.code = users[last.id].twofa => last.err = ""
        /\ last.code # users[last.id].twofa => last.err = ErrInvalid2FA

C6_Witness ==
    /\ last.op = "2fa" /\ last.chain = 3 /\ last.session # << >>
    /\ last.err = "" /\ last.code = users[last.id].twofa

\* C7 as claimed: in every reachable state blocked = true implies
\* failed-login counter >= 5.
C7_BlockedImpliesThreshold ==
    \A i \in UserIDs : (users[i].present /\ users[i].blocked) =>
                           users[i].failed >= FailedLoginsThreshold

Consistent(row) == row.blocked => row.failed >= FailedLoginsThreshold

\* C7 amended: every operation other than BlockUser and a profile update
\* keeps "blocked implies counter >= 5" on every account that satisfies it.
C7_LockoutKeepsThreshold ==
    [][ \A i \in UserIDs :
          (last'.op \notin {"block", "update"} /\ Consistent(users[i]))
              => Consistent(users'[i]) ]_vars

C7_Witness ==
    \E i \in UserIDs :
        /\ users[i].present /\ users[i].blocked
        /\ users[i].failed >= FailedLoginsThreshold
        /\ last.op = "login" /\ last.id = i /\ streak[i].n = FailedLoginsThreshold

\* C8: k failed AuthenticateUser calls on one account, run concurrently,
\* raise its failed-login counter by exactly k: once every call has
\* returned and no login succeeded in between, the counter is its starting
\* value plus the number of failed calls.
C8_ConcurrentFailuresCounted ==
    ((\A p \in Procs : pc[p] = "idle") /\ tally.id # 0 /\ tally.resets = 0) =>
        users[tally.id].failed = tally.start + tally.incs

----------------------------------------------------------------------------
(* Google login *)

C11_LinkAlwaysApplies ==
    (last.op = "google" /\ "link" \in last.tags) =>
        /\ last.id # 0 /\ "grew" \notin last.tags
        /\ users[last.id].provider = "google"
        /\ users[last.id].providerId = "sub123"

\* C11 amended: the account is linked when no other account holds the
\* subject as provider id; otherwise the login fails with the update error
\* and the account keeps its provider.  No account is created either way.
C11_LinkByEmail ==
    (last.op = "google" /\ "link" \in last.tags) =>
        /\ last.id # 0 /\ "grew" \notin last.tags
        /\ IF "linkfree" \in last.tags
           THEN /\ users[last.id].provider = "google"
                /\ users[last.id].providerId = "sub123"
                /\ last.err \in {"", ErrGoogleSession}
           ELSE /\ last.err = ErrGoogleUpdate
                /\ users[last.id].provider # "google"

\* A local account with a password hash has been linked.
C11_Witness ==
    /\ last.op = "google" /\ {"link", "linkfree"} \subseteq last.tags
    /\ last.err = "" /\ last.id # 0
    /\ users[last.id].provider = "google" /\ users[last.id].providerId = "sub123"
    /\ users[last.id].password # EmptyPassword

----------------------------------------------------------------------------
(* Password reset and change *)

\* C12: ResetPassword for an existing account whose provider is not local
\* returns an error, changes no field of any account and sends no
\* notification.
C12_NonLocalResetRejected ==
    /\ \A e \in scope.emails, rnd \in RandRead(TempPasswordLength, scope.seeds, randOK) :
          LET i == ByEmail(users, e)
              r == ResetPassword(users, e, rnd)
          IN  (i # 0 /\ users[i].provider # "local") =>
                  (r.err = ErrProvider /\ r.db = users /\ r.out = << >>)
    /\ (last.op \in {"reset", "forgot"} /\ "nonlocal" \in last.tags) =>
          (last.err = ErrProvider /\ "mailed" \notin last.tags /\ last.code = << >>)

\* A forgot-password request was served for a google account.
C12_Witness ==
    /\ last.op = "forgot" /\ "nonlocal" \in last.tags /\ last.id # 0
    /\ users[last.id].provider = "google"
    /\ ~users[last.id].changePw

\* C13: a successful password reset of a local account stores the hash of
\* a freshly generated 12-character temporary password, sets the
\* change-password flag and dispatches the plaintext by mail; no reset
\* replaces the hash without setting the flag.
C13_ResetSetsFlagAndMails ==
    (last.op \in {"reset", "forgot"} /\ last.err = "" /\ last.id # 0) =>
        /\ Len(last.code) = TempPasswordLength
        /\ users[last.id].password = HashPassword(last.code)
        /\ users[last.id].changePw
        /\ "mailed" \in last.tags

\* C14: once a password reset has set the change-password flag, the
\* response of the next successful AuthenticateUser carries the flag, and
\* the client goes to the change-password step instead of the 2FA step.
C14_FlagSurfacedByLogin ==
    (last.op = "login" /\ last.err = "" /\ last.id # 0 /\ users[last.id].changePw) =>
        "change-pass" \in last.tags

\* C15: a successful UpdateUserPassword(email, newPassword) leaves the
\* account with the hash of newPassword and the change-password flag
\* false; for an email with no account it returns an error and modifies
\* no account.
C15_PasswordChange ==
    /\ (last.op = "changepw" /\ last.err = "") =>
          /\ last.id # 0
          /\ users[last.id].password = HashPassword(last.code)
          /\ ~users[last.id].changePw
    /\ \A e \in EmailInputs, p \in scope.newPw :
          ByEmail(users, e) = 0 =>
              LET r == UpdateUserPassword(users, e, p) IN r.err # "" /\ r.db = users

\* The password of an account whose flag was set has been changed.
C15_Witness ==
    /\ last.op = "changepw" /\ last.err = "" /\ "flagged" \in last.tags
    /\ last.id # 0 /\ ~users[last.id].changePw
    /\ users[last.id].password = HashPassword(Pw1)

----------------------------------------------------------------------------
(* Two-factor codes and sessions *)

\* C16: RefreshUser2FAToken stores the new code before it sends it; when
\* the send fails it returns an error, the new code stays stored and a
\* later AuthenticateUser2FA with it succeeds.
C16_NoRollbackOnSendFailure ==
    /\ \A e \in scope.emails, rnd \in RandRead(TwoFactorLength, scope.seeds, randOK) :
          LET i == ByEmail(users, e)
              r == RefreshUser2FAToken(users, e, rnd, FALSE)
          IN  (i # 0 /\ ~rnd.err) =>
                /\ r.err = ErrSend2FA
                /\ r.db[i].twofa = Generate2FA(rnd)
                /\ users[i].session # << >> =>
                      AuthenticateUser2FA(r.db, users[i].session, Generate2FA(rnd)).err = ""
    /\ (last.op = "2fa" /\ "send-failed" \in last.tags) => last.err = ""

\* The code of a refresh whose send failed, which replaced another code,
\* has been verified.
C16_Witness ==
    /\ last.op = "2fa" /\ {"send-failed", "overwrote"} \subseteq last.tags
    /\ last.err = "" /\ last.id # 0
    /\ users[last.id].twofa = last.code

----------------------------------------------------------------------------
(* Registration and request validation *)

\* C18: in every reachable state every account whose provider is local
\* has a non-empty password hash.
C18_LocalHasHash ==
    \A i \in UserIDs :
        (users[i].present /\ users[i].provider = "local") =>
            users[i].password # EmptyPassword

\* C19: a request with a missing required field is rejected by its
\* handler before any store access, so it changes neither the failed-login
\* counter nor any other field of any account.
C19_MissingFieldsRejected ==
    [][ (last'.err = ErrBadRequest \/ "missing" \in last'.tags) => users' = users ]_vars

\* C20: a failed AuthenticateUser call on an existing account raises its
\* failed-login counter by exactly one and leaves the blocked flag that
\* follows from the new value, although the call returns an error; no
\* other account changes.
C20_FailedLoginCounted ==
    [][ (last'.op = "login" /\ last'.err # "" /\ last'.id # 0) =>
            /\ users'[last'.id].failed = users[last'.id].failed + 1
            /\ users'[last'.id].blocked =
                   (users'[last'.id].failed >= FailedLoginsThreshold)
            /\ \A j \in UserIDs : j # last'.id => users'[j] = users[j] ]_vars

\* The failed login that took the counter to the threshold.
C20_Witness ==
    /\ last.op = "login" /\ last.err = ErrInvalidCredentials /\ last.id # 0
    /\ users[last.id].failed = FailedLoginsThreshold
    /\ users[last.id].blocked

----------------------------------------------------------------------------
(* Failure of the random source and token formats *)

\* C21: when the secure random source fails, token generation yields no
\* usable token: Generate2FA returns the empty string, the refresh reports
\* an error and leaves no code that AuthenticateUser2FA accepts, and a
\* login issues no non-empty session identifier that it accepts.
C21_RandFailureFailsClosed ==
    /\ [](\A len \in {TwoFactorLength, SessionIDLength} :
            \A rnd \in RandRead(len, scope.seeds, FALSE) :
                rnd.err => Generate2FA(rnd) = << >>)
    /\ [][ ("rand-failed" \in last'.tags /\ last'.op = "refresh") =>
              /\ last'.err = ErrGenerate2FA
              /\ last'.code = << >>
              /\ \A s \in SessionInputs, c \in CodeInputs :
                    AuthenticateUser2FA(users', s, c).err = "" =>
                        BySession(users', s) # last'.id ]_vars
    /\ [][ ("rand-failed" \in last'.tags /\ last'.op = "login" /\ last'.err = "") =>
              /\ last'.session = << >>
              /\ users'[last'.id].session = << >>
              /\ \A s \in SessionTokens, c \in CodeInputs :
                    AuthenticateUser2FA(users', s, c).err = "" =>
                        BySession(users', s) # last'.id ]_vars

\* A refresh hit the failure of the random source on an account that held
\* a session identifier and a code: it answered with the generation error.
C21_Witness ==
    /\ last.op = "refresh" /\ {"rand-failed", "overwrote"} \subseteq last.tags
    /\ last.err = ErrGenerate2FA /\ last.id # 0
    /\ users[last.id].session # << >>
    /\ users[last.id].twofa = << >>

\* C22: every 2FA code stored by a refresh has exactly 6 characters of
\* 0-9A-Z, every session identifier stored by a login has exactly 50
\* characters of the same alphabet, and every temporary password generated
\* by a reset has exactly 12 characters of the password alphabet and is the
\* one whose hash is stored.
C22_TokenFormats ==
    /\ [][ (last'.op = "refresh" /\ last'.id # 0
              /\ users'[last'.id].twofa # users[last'.id].twofa) =>
              LET t == users'[last'.id].twofa IN
              /\ Len(t) = TwoFactorLength
              /\ \A k \in 1..Len(t) : \E j \in 1..Len(Characters) : Characters[j] = t[k] ]_vars
    /\ [][ (last'.op = "login" /\ last'.id # 0 /\ last'.err = ""
              /\ users'[last'.id].session # users[last'.id].session) =>
              LET t == users'[last'.id].session IN
              /\ Len(t) = SessionIDLength
              /\ \A k \in 1..Len(t) : \E j \in 1..Len(Characters) : Characters[j] = t[k] ]_vars
    /\ [][ (last'.op \in {"reset", "forgot"} /\ last'.id # 0
              /\ users'[last'.id].password # users[last'.id].password) =>
              LET t == last'.code IN
              /\ users'[last'.id].password = HashPassword(t)
              /\ Len(t) = TempPasswordLength
              /\ \A k \in 1..Len(t) :
                    \E j \in 1..Len(PasswordCharacters) : PasswordCharacters[j] = t[k] ]_vars

----------------------------------------------------------------------------
(* Reset of the lockout state and the blocked flag *)

\* C23: ResetFailedLogins on an account whose counter is 0 and whose
\* blocked flag is false changes no security field of any account, and on
\* any account applying it twice leaves the state that applying it once
\* leaves; it never changes another field than the counter and the flag.
C23_ResetIdempotent ==
    /\ [](\A e \in scope.emails :
            LET i == ByEmail(users, e)
                once == ResetFailedLogins(users, e)
                twice == ResetFailedLogins(once.db, e)
            IN  i # 0 =>
                  /\ twice.db = once.db
                  /\ once.db = [users EXCEPT ![i].failed = 0, ![i].blocked = FALSE]
                  /\ (users[i].failed = 0 /\ ~users[i].blocked) => once.db = users)
    /\ [][ (last'.op = "2fa" /\ last'.err = "" /\ last'.id # 0
              /\ users[last'.id].failed = 0 /\ ~users[last'.id].blocked) =>
                users' = users ]_vars

\* A verification that followed a login and a refresh: the login had
\* already reset the account, the verification reset it again.
C23_Witness ==
    /\ last.op = "2fa" /\ last.err = "" /\ last.chain = 3 /\ last.id # 0
    /\ users[last.id].failed = 0 /\ ~users[last.id].blocked
    /\ users[last.id].session = last.session /\ users[last.id].twofa = last.code

\* C24: while the blocked flag of an account is true no AuthenticateUser,
\* AuthenticateUser2FA or AuthenticateGoogleUser call succeeds for it, and
\* none of them clears the flag or resets the counter.
C24_BlockedStaysOut ==
    [][ (last'.op \in {"login", "2fa", "google"} /\ last'.err # ErrBadRequest
          /\ last'.id # 0 /\ users[last'.id].present /\ users[last'.id].blocked) =>
            /\ last'.err # ""
            /\ users'[last'.id].blocked
            /\ users'[last'.id].failed >= users[last'.id].failed ]_vars

\* C25: when failing and succeeding logins on one account interleave, the
\* blocked flag is true only if at least five failures were recorded since
\* the last reset, and no increment writes a value computed from the
\* counter read before that reset: the counter never exceeds the number
\* of failures recorded since the reset.
C25_NoStaleIncrement ==
    tally.id # 0 =>
        /\ users[tally.id].blocked => tally.since >= FailedLoginsThreshold
        /\ users[tally.id].failed <= tally.since

----------------------------------------------------------------------------
(* The second factor *)

\* C26: AuthenticateUser2FA succeeds for an account only if a successful
\* first-factor login of that account stored the session identifier it
\* holds and UpdateTwoFactorCode stored the non-empty code it holds; an
\* account that never passed the first factor is never authenticated.
C26_SecondFactorNeedsFirst ==
    [][ (last'.op = "2fa" /\ last'.err = "" /\ last'.id # 0) =>
            /\ streak[last'.id].ff
            /\ users[last'.id].twofa # << >>
            /\ users[last'.id].twofa \in CodeTokens ]_vars

\* C27: a successful AuthenticateUser2FA changes only the failed-login
\* counter and the blocked flag of its account; the session identifier and
\* the code stay, so the pair it accepted is accepted again by every later
\* call until a refresh or a new login overwrites one of the two.
C27_VerifyFrame ==
    /\ [][ (last'.op = "2fa" /\ last'.err = "" /\ last'.id # 0) =>
              /\ users' = [users EXCEPT ![last'.id].failed = 0,
                                        ![last'.id].blocked = FALSE]
              /\ AuthenticateUser2FA(users', last'.session, last'.code).err = "" ]_vars
    /\ [][ (last.op = "2fa" /\ last.err = ""
              /\ last'.op \notin {"login", "google", "refresh"}) =>
                AuthenticateUser2FA(users', last.session, last.code).err = "" ]_vars

\* C28: a successful AuthenticateUser replaces the session identifier and
\* leaves the stored 2FA code untouched: the code stored before the login
\* is accepted by AuthenticateUser2FA together with the identifier the
\* login issued, without a new refresh.
C28_LoginKeepsCode ==
    /\ [][ (last'.op = "login" /\ last'.err = "" /\ last'.id # 0) =>
              /\ users' = [users EXCEPT ![last'.id].failed = 0,
                                        ![last'.id].blocked = FALSE,
                                        ![last'.id].session = users'[last'.id].session]
              /\ (last'.session # << >> /\ users[last'.id].twofa # << >>) =>
                    /\ users'[last'.id].session = last'.session
                    /\ AuthenticateUser2FA(users', last'.session,
                                           users[last'.id].twofa).err = "" ]_vars
    /\ [][ (last'.op = "2fa" /\ "after-login" \in last'.tags
              /\ last'.code = users[last.id].twofa) =>
                (last'.err = "" /\ last'.id = last.id) ]_vars

\* A login replaced the session identifier of an account that held a code,
\* and the verification that followed it accepted that code with the new
\* identifier.
C28_Witness ==
    /\ last.op = "2fa" /\ {"after-login", "rotated"} \subseteq last.tags
    /\ last.err = "" /\ last.id # 0
    /\ users[last.id].session = last.session /\ users[last.id].twofa = last.code

----------------------------------------------------------------------------
(* Password reset: failure paths *)

\* C29: the forgot-password flow is not atomic: when HandleForgotPassword
\* fails because the change-password flag could not be set or the mail
\* could not be sent, the password hash of the account is already the hash
\* of the temporary password and the previous password no longer
\* authenticates.
C29_ForgotNotAtomic ==
    [][ (last'.op = "forgot" /\ last'.err \in {ErrChangeFlag, ErrSendPassword}
          /\ last'.id # 0) =>
            /\ users'[last'.id].password = HashPassword(last'.code)
            /\ \A p \in scope.loginPw :
                  (p # last'.code
                   /\ GetValidatedUser(users, users[last'.id].email, p).err = "") =>
                      GetValidatedUser(users', users[last'.id].email, p).err
                          = ErrInvalidCredentials ]_vars

\* The mail of a forgot-password request failed on an account whose
\* password authenticated before the request: the temporary password is
\* the stored one and the flag is set.
C29_Witness ==
    /\ last.op = "forgot" /\ last.err = ErrSendPassword /\ last.id # 0
    /\ "prev-valid" \in last.tags
    /\ users[last.id].password = HashPassword(last.code)
    /\ users[last.id].changePw

\* C30: ResetPassword for an email that matches no account ends with an
\* error result, never with the panic of a nil dereference, and changes no
\* account.
C30_UnknownEmailReset ==
    [][ (last'.op \in {"reset", "forgot"} /\ last'.err # ErrBadRequest
          /\ last'.id = 0) =>
            /\ last'.err # ""
            /\ last'.err # ErrPanic
            /\ users' = users ]_vars

====
